---- MODULE Spec2Model ----
(***************************************************************************)
(* A model of the ISO 7000 icon pipeline: the SVG normalizer               *)
(* (svg.py: cleanup_svg), the batch driver (build.py: process_svg, main)   *)
(* and the start/end test of the packer (pack.py: pack).                   *)
(*                                                                         *)
(* A document is a sequence of elements in document order; each element    *)
(* carries its depth (the root has depth 0), so the sequence determines    *)
(* the tree.  A file is a sequence of markup tokens.  Attribute values     *)
(* are kept as the tokens the code reads from them: a number written       *)
(* "100" (int), a number written "100.0" (flt, what Python's str(float)    *)
(* produces), a number with a unit suffix "100px" (unit), or text with     *)
(* no number in it (bad).                                                  *)
(***************************************************************************)
EXTENDS Integers, Sequences, FiniteSets, TLC

VARIABLES
    input,      \* the file cleanup_svg is called on (a token sequence)
    pc,         \* "start", "once" (one call made), "twice" (called on its own output)
    run1,       \* the record of the call on input
    run2,       \* the record of the call on the first call's output
    cache,      \* sources/raw: symbol -> file, or NoFile
    processed,  \* library/src/icons: symbol -> file, or NoFile
    force,      \* args.force_process of the current run of main
    idx,        \* position of main's loop in the symbol list
    mainpc,     \* "idle", "loop", "done" (main returned), "crashed" (exception left main)
    called,     \* the symbols process_svg was called for in the current run
    listed,     \* TRUE when the current run wrote sources/icons.json
    lastcall,   \* per symbol, the status of the latest cleanup_svg call on it
    runs        \* how many runs of main were started

cvars == <<input, pc, run1, run2>>
bvars == <<cache, processed, force, idx, mainpc, called, listed, lastcall, runs>>
vars == <<input, pc, run1, run2, cache, processed, force, idx, mainpc, called, listed,
          lastcall, runs>>

(***************************************************************************)
(* Bounds of the model.                                                    *)
(***************************************************************************)
MaxNodes == 2
MaxRuns == 2

(***************************************************************************)
(* Attribute values.                                                       *)
(***************************************************************************)
Tok(k, n) == [k |-> k, n |-> n]
NoTok == Tok("absent", 0)
EmptyTok == Tok("empty", 0)

\* Python truthiness of root.get(name): None and "" are falsy.
Truthy(t) == t.k \notin {"absent", "empty"}

\* float(s) succeeds on a plain number only; a unit suffix or other text raises ValueError.
FloatOk(t) == t.k \in {"int", "flt"}
\* str(float(s)) as the f-strings produce it: always in float notation.
FloatStr(n) == Tok("flt", n)

NoViewBox == [k |-> "absent", v |-> <<>>]
EmptyViewBox == [k |-> "empty", v |-> <<>>]
ViewBox(a, b, c, d) == [k |-> "set", v |-> <<a, b, c, d>>]

NoTransform == [k |-> "absent", tx |-> NoTok, ty |-> NoTok]
Translate(a, b) == [k |-> "translate", tx |-> a, ty |-> b]
OtherTransform == [k |-> "other", tx |-> NoTok, ty |-> NoTok]

Decl(key, val) == [key |-> key, val |-> val]
NoStyle == [k |-> "absent", decls |-> <<>>, fmt |-> "canon"]
Style(decls, fmt) == [k |-> "set", decls |-> decls, fmt |-> fmt]

SVG_NS == "svg"

El(tag, ns, stroke, style, transform, ext) ==
    [tag |-> tag, ns |-> ns, d |-> 0, width |-> NoTok, height |-> NoTok,
     viewBox |-> NoViewBox, stroke |-> stroke, style |-> style,
     transform |-> transform, ext |-> ext]

NoEl == El("", "", "absent", NoStyle, NoTransform, FALSE)

(***************************************************************************)
(* Files: sequences of markup tokens.                                      *)
(***************************************************************************)
DeclTok == [t |-> "decl", el |-> NoEl]
OpenTok(e) == [t |-> "open", el |-> e]
EmptyElTok(e) == [t |-> "empty", el |-> e]
CloseTok(tag) == [t |-> "close", el |-> [NoEl EXCEPT !.tag = tag]]
CommentTok == [t |-> "comment", el |-> [NoEl EXCEPT !.tag = "#comment"]]
GarbageTok == [t |-> "garbage", el |-> NoEl]

NoFile == <<[t |-> "nofile", el |-> NoEl]>>

\* Number of elements open just before token i.
RECURSIVE Balance(_, _)
Balance(text, i) ==
    IF i <= 1 THEN 0
    ELSE Balance(text, i - 1)
         + (IF text[i - 1].t = "open" THEN 1 ELSE IF text[i - 1].t = "close" THEN -1 ELSE 0)

IsElemTok(tk) == tk.t \in {"open", "empty"}

\* What etree.parse accepts: markup only, one root element, every element closed.
WellFormed(text) ==
    /\ Len(text) > 0
    /\ \A i \in 1..Len(text) : text[i].t \in {"decl", "open", "empty", "close", "comment"}
    /\ \A i \in 1..Len(text) : text[i].t = "decl" => i = 1
    /\ Balance(text, Len(text) + 1) = 0
    /\ \A i \in 1..Len(text) : text[i].t = "close" => Balance(text, i) >= 1
    /\ Cardinality({i \in 1..Len(text) : IsElemTok(text[i]) /\ Balance(text, i) = 0}) = 1
    /\ \A i \in 1..Len(text) :
          text[i].t = "close" =>
             \E j \in 1..(i - 1) :
                /\ text[j].t = "open"
                /\ Balance(text, j) = Balance(text, i) - 1
                /\ text[j].el.tag = text[i].el.tag
                /\ \A m \in (j + 1)..(i - 1) : Balance(text, m) > Balance(text, j)

\* etree.parse: the elements and comments inside the root, in document order, with depths.
RECURSIVE ParseFrom(_, _)
ParseFrom(text, i) ==
    IF i > Len(text) THEN <<>>
    ELSE IF IsElemTok(text[i]) \/ (text[i].t = "comment" /\ Balance(text, i) > 0)
         THEN <<[text[i].el EXCEPT !.d = Balance(text, i)]>> \o ParseFrom(text, i + 1)
         ELSE ParseFrom(text, i + 1)

Parse(text) == ParseFrom(text, 1)

HasChildren(t, i) == i < Len(t) /\ t[i + 1].d > t[i].d

\* The closing tags of the open elements st[from..Len(st)], innermost first.
RECURSIVE Closes(_, _)
Closes(st, from) ==
    IF Len(st) < from THEN <<>>
    ELSE <<CloseTok(st[Len(st)])>> \o Closes(SubSeq(st, 1, Len(st) - 1), from)

RECURSIVE SerFrom(_, _, _)
SerFrom(t, i, st) ==
    IF i > Len(t) THEN Closes(st, 1)
    ELSE LET d == t[i].d
             up == SubSeq(st, 1, d)
             e == [t[i] EXCEPT !.d = 0]
         IN  Closes(st, d + 1)
             \o (IF e.tag = "#comment" THEN <<CommentTok>> \o SerFrom(t, i + 1, up)
                 ELSE IF HasChildren(t, i)
                      THEN <<OpenTok(e)>> \o SerFrom(t, i + 1, Append(up, e.tag))
                      ELSE <<EmptyElTok(e)>> \o SerFrom(t, i + 1, up))

\* etree.tostring(tree, xml_declaration=True, encoding="UTF-8", pretty_print=False):
\* the XML declaration, then the tree; an element without content is written <tag/>.
Serialize(t) == <<DeclTok>> \o SerFrom(t, 1, <<>>)

(***************************************************************************)
(* Tree surgery.                                                           *)
(***************************************************************************)
\* k lies in the subtree rooted at r.
InSubtree(t, r, k) == k >= r /\ \A m \in (r + 1)..k : t[m].d > t[r].d

RECURSIVE KeepFrom(_, _, _)
KeepFrom(t, R, i) ==
    IF i > Len(t) THEN <<>>
    ELSE IF \E r \in R : InSubtree(t, r, i) THEN KeepFrom(t, R, i + 1)
         ELSE <<t[i]>> \o KeepFrom(t, R, i + 1)

\* elem.getparent().remove(elem) for every elem of R: each goes with its subtree.
RemoveAll(t, R) == KeepFrom(t, R, 1)

\* The element children of the root.
RootChildren(t) == {i \in 2..Len(t) : t[i].d = 1 /\ t[i].tag # "#comment"}
ChildCount(t, i) ==
    Cardinality({k \in (i + 1)..Len(t) :
                    InSubtree(t, i, k) /\ t[k].d = t[i].d + 1 /\ t[k].tag # "#comment"})

(***************************************************************************)
(* cleanup_svg, step by step.                                              *)
(***************************************************************************)
\* etree.strip_elements(tree, etree.Comment, with_tail=False)
StripComments(t) == SelectSeq(t, LAMBDA e : e.tag # "#comment")

IsInkscapeDecl(dcl) == dcl.key \in {"-inkscape-stroke", "-inkscape-font-specification"}

\* The style attribute without its -inkscape-* declarations, re-joined with "; ";
\* deleted when nothing is left.
CleanStyle(s) ==
    IF s.k # "set" THEN s
    ELSE LET parts == SelectSeq(s.decls, LAMBDA dcl : ~IsInkscapeDecl(dcl))
         IN  IF parts # <<>> THEN Style(parts, "canon") ELSE NoStyle

\* Namespaced attributes are deleted, the style attribute is cleaned.
CleanAttrs(e) == [e EXCEPT !.ext = FALSE, !.style = CleanStyle(e.style)]

\* The test of the first loop: not in the SVG namespace, or a defs element.
IsForeign(e) == e.ns # SVG_NS \/ e.tag \in {"defs"}

\* The first loop over root.xpath(".|.//*"): a foreign element that has a parent is
\* removed, a foreign element without one (the root) is skipped untouched, every
\* other element has its attributes cleaned.
ForeignStep(t) ==
    LET cleaned == [i \in 1..Len(t) |-> IF IsForeign(t[i]) THEN t[i] ELSE CleanAttrs(t[i])]
    IN  RemoveAll(cleaned, {i \in 2..Len(t) : IsForeign(t[i])})

\* root.xpath(".//defs"): descendants named defs in no namespace.
DefsStep(t) == RemoveAll(t, {i \in 2..Len(t) : t[i].tag = "defs" /\ t[i].ns = "none"})

ContainsGray(e, attr) ==
    IF attr = "stroke" THEN e.stroke \in {"#999", "#999999"}
    ELSE e.style.k = "set"
         /\ \E j \in 1..Len(e.style.decls) : e.style.decls[j].val \in {"#999", "#999999"}

\* One xpath pass: the descendants with this local name whose attribute contains #999.
GrayPass(t, type, attr) ==
    RemoveAll(t, {i \in 2..Len(t) : t[i].tag = type /\ ContainsGray(t[i], attr)})

GrayStep(t) ==
    GrayPass(GrayPass(GrayPass(GrayPass(t, "g", "stroke"), "g", "style"),
                      "path", "stroke"), "path", "style")

Prune(t) == GrayStep(DefsStep(ForeignStep(StripComments(t))))

SetRoot(t, r) == [t EXCEPT ![1] = r]
DropSize(r) == [r EXCEPT !.width = NoTok, !.height = NoTok]

\* The viewBox / root size cases.
Size(t) ==
    LET r == t[1]
    IN  IF ~(Truthy(r.width) /\ Truthy(r.height))
        THEN IF r.viewBox.k # "set"
             THEN [status |-> "NoSizeInfo", tree |-> t]
             ELSE [status |-> "ok", tree |-> t]
        ELSE IF r.viewBox.k # "set"
             THEN IF FloatOk(r.width) /\ FloatOk(r.height)
                  THEN [status |-> "ok",
                        tree |-> SetRoot(t, DropSize(
                            [r EXCEPT !.viewBox = ViewBox(Tok("int", 0), Tok("int", 0),
                                                          FloatStr(r.width.n),
                                                          FloatStr(r.height.n))]))]
                  ELSE [status |-> "UnparseableSize", tree |-> t]
             ELSE [status |-> "ok", tree |-> SetRoot(t, DropSize(r))]

\* TRANSLATE_RE.match(g.get("transform", ""))
TranslateMatch(tr) == tr.k = "translate"

\* A subtraction done the wrong way round.
ShiftOriginAdd(v, delta) == v + delta

\* min_x - tx, min_y - ty
ShiftOrigin(v, delta) == v - delta

\* The transform attribute left in place.
DelTransformForgotten(e) == e

\* del g.attrib["transform"]
DelTransform(e) == [e EXCEPT !.transform = NoTransform]

\* The translate of a sole top-level group is folded into the viewBox origin.  The
\* float() calls on the viewBox parts are outside the try block: their ValueError
\* leaves cleanup_svg.
Absorb(t) ==
    LET r == t[1]
        kids == RootChildren(t)
        g == CHOOSE i \in kids : TRUE
        parts == r.viewBox.v
    IN  IF /\ r.viewBox.k = "set"
           /\ Cardinality(kids) = 1
           /\ t[g].tag = "g"
           /\ TranslateMatch(t[g].transform)
           /\ FloatOk(t[g].transform.tx) /\ FloatOk(t[g].transform.ty)
           /\ Len(parts) = 4
        THEN IF \A j \in 1..4 : FloatOk(parts[j])
             THEN [status |-> "ok",
                   tree |-> [t EXCEPT
                       ![1].viewBox =
                           ViewBox(FloatStr(ShiftOrigin(parts[1].n, t[g].transform.tx.n)),
                                   FloatStr(ShiftOrigin(parts[2].n, t[g].transform.ty.n)),
                                   FloatStr(parts[3].n), FloatStr(parts[4].n)),
                       ![g] = DelTransform(t[g])]]
             ELSE [status |-> "ValueError", tree |-> t]
        ELSE [status |-> "ok", tree |-> t]

NoTree == <<>>

Call(status, pruned, sized, final, written, out) ==
    [status |-> status, pruned |-> pruned, sized |-> sized, final |-> final,
     written |-> written, out |-> out]

NoCall == Call("none", NoTree, NoTree, NoTree, FALSE, NoFile)

\* cleanup_svg(path, output) on the file `text`: how the call ends ("ok": output
\* written; "NoSizeInfo", "UnparseableSize": error logged, returned; "XMLSyntaxError",
\* "ValueError": exception raised), the tree after pruning, after the size cases and
\* at the end, and what was written.
CleanupSvg(text) ==
    IF ~WellFormed(text)
    THEN Call("XMLSyntaxError", NoTree, NoTree, NoTree, FALSE, NoFile)
    ELSE LET pruned == Prune(Parse(text))
             sz == Size(pruned)
             ab == Absorb(sz.tree)
         IN  IF sz.status # "ok"
             THEN Call(sz.status, pruned, NoTree, NoTree, FALSE, NoFile)
             ELSE IF ab.status # "ok"
                  THEN Call(ab.status, pruned, sz.tree, ab.tree, FALSE, NoFile)
                  ELSE Call("ok", pruned, sz.tree, ab.tree, TRUE, Serialize(ab.tree))

Raised(status) == status \in {"XMLSyntaxError", "ValueError"}
Skipped(status) == status \in {"NoSizeInfo", "UnparseableSize"}

\* pack(): content.startswith("<svg ") and content.endswith("</svg>")
PackStartOk(text) == Len(text) > 0 /\ IsElemTok(text[1]) /\ text[1].el.tag = "svg"
PackEndOk(text) == Len(text) > 0 /\ text[Len(text)] = CloseTok("svg")

(***************************************************************************)
(* The input documents.                                                    *)
(***************************************************************************)
PlainPath == El("path", SVG_NS, "absent", NoStyle, NoTransform, FALSE)
EditorPath ==
    El("path", SVG_NS, "#000",
       Style(<<Decl("fill", "#000"), Decl("-inkscape-stroke", "none")>>, "raw"),
       NoTransform, TRUE)
GrayPath == El("path", SVG_NS, "#999999", NoStyle, NoTransform, FALSE)
PlainG == El("g", SVG_NS, "absent", NoStyle, NoTransform, FALSE)
TranslateG ==
    El("g", SVG_NS, "absent", NoStyle, Translate(Tok("int", 10), Tok("int", 5)), FALSE)
UnitTranslateG ==
    El("g", SVG_NS, "absent", NoStyle, Translate(Tok("unit", 10), Tok("int", 5)), FALSE)
RotateG == El("g", SVG_NS, "absent", NoStyle, OtherTransform, FALSE)
GrayStyleG ==
    El("g", SVG_NS, "absent", Style(<<Decl("stroke", "#999")>>, "canon"), NoTransform, FALSE)
Defs == El("defs", SVG_NS, "absent", NoStyle, NoTransform, FALSE)
NamedView == El("namedview", "sodipodi", "absent", NoStyle, NoTransform, TRUE)
CommentNode == CommentTok.el

NodeKinds ==
    {PlainPath, EditorPath, GrayPath, PlainG, TranslateG, UnitTranslateG, RotateG,
     GrayStyleG, Defs, NamedView}

IsContainer(e) == e.tag \in {"g", "defs", "namedview"}

Widths == {NoTok, EmptyTok, Tok("int", 100), Tok("unit", 100), Tok("bad", 0)}
Heights == {NoTok, EmptyTok, Tok("int", 50)}
ViewBoxes ==
    {NoViewBox, EmptyViewBox,
     ViewBox(Tok("int", 0), Tok("int", 0), Tok("int", 100), Tok("int", 100)),
     ViewBox(Tok("bad", 0), Tok("bad", 0), Tok("bad", 0), Tok("bad", 0)),
     [k |-> "set", v |-> <<Tok("int", 0), Tok("int", 0), Tok("int", 100)>>]}

\* Root elements: <svg> in the SVG namespace or without an xmlns declaration, with
\* an editor attribute (inkscape:version), and every combination of the size attributes.
Roots ==
    {[El("svg", ns, "absent", NoStyle, NoTransform, TRUE)
        EXCEPT !.width = w, !.height = h, !.viewBox = vb] :
     ns \in {SVG_NS, "none"}, w \in Widths, h \in Heights, vb \in ViewBoxes}

\* The depth sequences of the forests of n nodes, in document order.
Shapes(n) ==
    {f \in [1..n -> 1..n] :
        /\ n >= 1 => f[1] = 1
        /\ \A i \in 2..n : f[i] <= f[i - 1] + 1}

Body(k, f) == [i \in 1..Len(k) |-> [k[i] EXCEPT !.d = f[i]]]

\* Only groups and other containers have children.
ValidBody(b) == \A i \in 1..Len(b) : HasChildren(b, i) => IsContainer(b[i])

\* A raw file as authored: the markup of the tree, without an XML declaration.
Markup(t) == SerFrom(t, 1, <<>>)

(***************************************************************************)
(* The normalizer called on a document, and then on its own output.        *)
(***************************************************************************)
Init ==
    /\ \E r \in Roots, n \in 0..MaxNodes :
          \E k \in [1..n -> NodeKinds], f \in Shapes(n) :
             /\ ValidBody(Body(k, f))
             /\ input = Markup(<<r>> \o Body(k, f))
    /\ pc = "start"
    /\ run1 = NoCall
    /\ run2 = NoCall
    /\ cache = <<>> /\ processed = <<>> /\ force = FALSE /\ idx = 0
    /\ mainpc = "off" /\ called = {} /\ listed = FALSE /\ lastcall = <<>> /\ runs = 0

\* cleanup_svg(input, output)
FirstCall ==
    /\ pc = "start"
    /\ run1' = CleanupSvg(input)
    /\ pc' = "once"
    /\ UNCHANGED <<input, run2>>
    /\ UNCHANGED bvars

\* cleanup_svg(output, output2), on a file the first call wrote
SecondCall ==
    /\ pc = "once"
    /\ run1.written
    /\ run2' = CleanupSvg(run1.out)
    /\ pc' = "twice"
    /\ UNCHANGED <<input, run1>>
    /\ UNCHANGED bvars

Next == FirstCall \/ SecondCall

Spec == Init /\ [][Next]_vars

(***************************************************************************)
(* The batch driver: main() over the symbol list, run after run.           *)
(***************************************************************************)
\* process_wikimedia returns the symbols sorted by reference.
Symbols == <<"0001", "0002">>
SymSet == {Symbols[i] : i \in 1..Len(Symbols)}

SizedRoot(w, h, vb) ==
    [El("svg", SVG_NS, "absent", NoStyle, NoTransform, TRUE)
        EXCEPT !.width = w, !.height = h, !.viewBox = vb]
At(e, depth) == [e EXCEPT !.d = depth]

IntBox == ViewBox(Tok("int", 0), Tok("int", 0), Tok("int", 100), Tok("int", 100))
BadBox == ViewBox(Tok("bad", 0), Tok("bad", 0), Tok("bad", 0), Tok("bad", 0))

\* The files the media repository may serve for a symbol.
GoodFile ==
    <<DeclTok>> \o Markup(<<SizedRoot(Tok("int", 100), Tok("int", 50), IntBox),
                            At(CommentNode, 1), At(NamedView, 1), At(PlainPath, 1)>>)
NoSizeFile == Markup(<<SizedRoot(NoTok, NoTok, NoViewBox), At(PlainPath, 1)>>)
UnitSizeFile ==
    Markup(<<SizedRoot(Tok("unit", 100), Tok("int", 50), NoViewBox), At(PlainPath, 1)>>)
BadBoxFile ==
    Markup(<<SizedRoot(NoTok, NoTok, BadBox), At(TranslateG, 1), At(PlainPath, 2)>>)
\* Malformed markup: the root element is never closed.
TruncatedFile == <<OpenTok(SizedRoot(NoTok, NoTok, IntBox)), EmptyElTok(PlainPath)>>

RemoteFiles == {GoodFile, NoSizeFile, UnitSizeFile, BadBoxFile, TruncatedFile}

InitBatch ==
    /\ input = NoFile /\ pc = "off" /\ run1 = NoCall /\ run2 = NoCall
    /\ cache = [s \in SymSet |-> NoFile]
    /\ processed = [s \in SymSet |-> NoFile]
    /\ force = FALSE
    /\ idx = 0
    /\ mainpc = "idle"
    /\ called = {}
    /\ listed = FALSE
    /\ lastcall = [s \in SymSet |-> "none"]
    /\ runs = 0

\* main() up to its loop: the symbol list is built and download_svgs fetches every
\* raw file that is not in the cache; --force-process is given or not.
StartRun ==
    /\ mainpc \in {"idle", "done", "crashed"}
    /\ runs < MaxRuns
    /\ \E f \in BOOLEAN, fetched \in [SymSet -> RemoteFiles] :
          /\ force' = f
          /\ cache' = [s \in SymSet |-> IF cache[s] = NoFile THEN fetched[s] ELSE cache[s]]
    /\ idx' = 1
    /\ mainpc' = "loop"
    /\ called' = {}
    /\ listed' = FALSE
    /\ runs' = runs + 1
    /\ UNCHANGED <<processed, lastcall>>
    /\ UNCHANGED cvars

\* One iteration of main's loop: process_svg(s, args.force_process).  An exception
\* raised by cleanup_svg is caught nowhere: it leaves process_svg and main.
ProcessSvg ==
    /\ mainpc = "loop"
    /\ idx <= Len(Symbols)
    /\ LET s == Symbols[idx]
           res == CleanupSvg(cache[s])
       IN  /\ called' = called \cup {s}
           /\ IF (~force /\ processed[s] # NoFile) \/ cache[s] = NoFile
              THEN /\ idx' = idx + 1
                   /\ UNCHANGED <<processed, lastcall, mainpc>>
              ELSE /\ lastcall' = [lastcall EXCEPT ![s] = res.status]
                   /\ processed' = IF res.written THEN [processed EXCEPT ![s] = res.out]
                                   ELSE processed
                   /\ IF Raised(res.status)
                      THEN mainpc' = "crashed" /\ idx' = idx
                      ELSE mainpc' = "loop" /\ idx' = idx + 1
    /\ UNCHANGED <<cache, force, listed, runs>>
    /\ UNCHANGED cvars

\* After the loop: PROCESSED_JSON.write_text(...), the symbol list.
WriteList ==
    /\ mainpc = "loop"
    /\ idx > Len(Symbols)
    /\ listed' = TRUE
    /\ mainpc' = "done"
    /\ UNCHANGED <<cache, processed, force, idx, called, lastcall, runs>>
    /\ UNCHANGED cvars

\* Between runs a raw file leaves the cache (the maintainer deletes it to have it
\* fetched again); download_svgs then fetches what the repository serves now.
EvictRaw ==
    /\ mainpc \in {"done", "crashed"}
    /\ \E s \in SymSet :
          /\ cache[s] # NoFile
          /\ cache' = [cache EXCEPT ![s] = NoFile]
    /\ UNCHANGED <<processed, force, idx, mainpc, called, listed, lastcall, runs>>
    /\ UNCHANGED cvars

NextBatch == StartRun \/ ProcessSvg \/ WriteList \/ EvictRaw

SpecBatch == InitBatch /\ [][NextBatch]_vars

(***************************************************************************)
(* Properties.                                                             *)
(***************************************************************************)
Returned == pc \in {"once", "twice"}

\* C1: every file the normalizer writes starts with the root tag <svg and ends
\* with </svg>, so both assertions of pack() hold on it.
C1_PackerAssertionsHold ==
    (Returned /\ run1.written) => PackStartOk(run1.out) /\ PackEndOk(run1.out)

\* C2: the root of every output has a viewBox and neither a width nor a height
\* attribute, whatever combination of the three the input root had.
C2_SizingInvariant ==
    (Returned /\ run1.written) =>
        /\ run1.final[1].viewBox.k # "absent"
        /\ run1.final[1].width.k = "absent"
        /\ run1.final[1].height.k = "absent"

\* C3: no output contains a group element without child elements, at any depth.
C3_NoOrphanGroups ==
    (Returned /\ run1.written) =>
        \A i \in 1..Len(run1.final) :
            run1.final[i].tag = "g" => ChildCount(run1.final, i) > 0

\* C4: running the normalizer on one of its own outputs succeeds and writes the
\* same file again: same tree, same attribute values.
C4_Idempotent ==
    pc = "twice" =>
        /\ run2.status = "ok"
        /\ run2.written
        /\ run2.final = run1.final
        /\ run2.out = run1.out

\* C4 witness: the second call has been made on an output whose first call changed
\* the document in the size step and in the absorption step.
C4_Witness ==
    /\ pc = "twice"
    /\ run2.written
    /\ run1.pruned # run1.sized
    /\ run1.sized # run1.final

\* C5: in every output every element, the root included, is in the SVG namespace
\* and no attribute of any element is namespace-qualified.
C5_NamespaceClosure ==
    (Returned /\ run1.written) =>
        \A i \in 1..Len(run1.final) :
            run1.final[i].ns = SVG_NS /\ ~run1.final[i].ext

\* C6: on a well-formed input the normalizer never raises: it writes an output or
\* logs NoSizeInfo / UnparseableSize and returns.
C6_NeverRaises ==
    (Returned /\ WellFormed(input)) => ~Raised(run1.status)

\* C7: with width and height present and no viewBox, the viewBox is derived from the
\* numeric prefixes of width and height (unit suffixes stripped) and width/height are
\* removed; the call fails with UnparseableSize only when a dimension has no
\* numeric component.
C7_UnitsStripped ==
    (/\ Returned
     /\ run1.pruned # NoTree
     /\ Truthy(run1.pruned[1].width) /\ Truthy(run1.pruned[1].height)
     /\ run1.pruned[1].viewBox.k = "absent") =>
        IF run1.pruned[1].width.k = "bad" \/ run1.pruned[1].height.k = "bad"
        THEN run1.status = "UnparseableSize" /\ ~run1.written
        ELSE /\ run1.written
             /\ Len(run1.sized[1].viewBox.v) = 4
             /\ run1.sized[1].viewBox.v[3].n = run1.pruned[1].width.n
             /\ run1.sized[1].viewBox.v[4].n = run1.pruned[1].height.n
             /\ run1.sized[1].width.k = "absent" /\ run1.sized[1].height.k = "absent"

\* The case transform absorption is about: a viewBox of four numbers and exactly
\* one child element of the root, a group with a numeric two-argument translate.
C8_PureTranslateCase(t) ==
    /\ t[1].viewBox.k = "set"
    /\ Len(t[1].viewBox.v) = 4
    /\ \A j \in 1..4 : t[1].viewBox.v[j].k \in {"int", "flt"}
    /\ Cardinality({i \in 2..Len(t) : t[i].d = 1}) = 1
    /\ t[2].tag = "g"
    /\ t[2].transform.k = "translate"
    /\ t[2].transform.tx.k \in {"int", "flt"}
    /\ t[2].transform.ty.k \in {"int", "flt"}

\* How a number is written when integer notation is kept for integer operands.
C8_PlainNotation(a, b, n) == Tok(IF a.k = "int" /\ b.k = "int" THEN "int" ELSE "flt", n)

\* C8 as stated: the case is decided on the tree after pruning; the new viewBox is
\* "(x-tx) (y-ty) w h" in the notation of the input ("0 0 100 100" and
\* translate(10,5) give "-10 -5 100 100"), w and h unchanged, the transform is
\* gone; in every other case the viewBox and the transforms are left as they were.
C8_AsStated ==
    (Returned /\ run1.written) =>
        LET p == run1.pruned
            f == run1.final
            v == p[1].viewBox.v
            tr == p[2].transform
        IN  IF C8_PureTranslateCase(p)
            THEN /\ f[1].viewBox = ViewBox(C8_PlainNotation(v[1], tr.tx, v[1].n - tr.tx.n),
                                           C8_PlainNotation(v[2], tr.ty, v[2].n - tr.ty.n),
                                           v[3], v[4])
                 /\ f[2].transform = NoTransform
            ELSE /\ f[1].viewBox = run1.sized[1].viewBox
                 /\ \A i \in 1..Len(f) : f[i].transform = p[i].transform

\* C8 amended: the case is decided on the tree after pruning and the size step; the
\* new viewBox is the four numbers x-tx, y-ty, w, h, each written in float notation
\* ("0 0 100 100" and translate(10,5) give "-10.0 -5.0 100.0 100.0"), the transform
\* is gone and nothing else changes; in every other case the absorption step changes
\* nothing.
C8_Absorption ==
    (Returned /\ run1.sized # NoTree) =>
        LET s == run1.sized
            f == run1.final
            v == s[1].viewBox.v
            tr == s[2].transform
        IN  IF C8_PureTranslateCase(s)
            THEN /\ run1.written
                 /\ f[1].viewBox = ViewBox(Tok("flt", v[1].n - tr.tx.n),
                                           Tok("flt", v[2].n - tr.ty.n),
                                           Tok("flt", v[3].n), Tok("flt", v[4].n))
                 /\ f[2].transform.k = "absent"
                 /\ Len(f) = Len(s)
                 /\ f[1] = [s[1] EXCEPT !.viewBox = f[1].viewBox]
                 /\ f[2] = [s[2] EXCEPT !.transform = f[2].transform]
                 /\ \A i \in 3..Len(s) : f[i] = s[i]
            ELSE f = s

\* C8 witness: an output was written for a document whose viewBox was derived from
\* width and height and whose sole top-level group, not empty, had a translate.
C8_Witness ==
    /\ Returned
    /\ run1.written
    /\ C8_PureTranslateCase(run1.sized)
    /\ run1.pruned[1].viewBox.k = "absent"
    /\ Len(run1.final) > 2

\* C9: a failure on one symbol's file does not abort the batch: a run of main that
\* has ended has called process_svg for every symbol and has written the symbol list.
C9_BatchIsolation ==
    mainpc \in {"done", "crashed"} => (called = SymSet /\ listed)

\* C10: after a call of the normalizer that was skipped with NoSizeInfo or
\* UnparseableSize, no output file exists for that input.
C10_NoOutputOnFailure ==
    \A s \in SymSet : Skipped(lastcall[s]) => processed[s] = NoFile

====
